---- MODULE Spec2Model ----
\* Model of Tutorials/CNTK_105_Basic_Autoencoder_for_Dimensionality_Reduction.ipynb:
\* the notebook's code cells run top to bottom (data check, simple autoencoder,
\* visualisation batch, deep autoencoder, label/similarity batch), plus two
\* harnesses that exercise create_reader and image_pair_cosine_distance on
\* inputs the notebook's own run never produces.
EXTENDS Integers, Sequences, FiniteSets, TLC

VARIABLES
    \* ---- notebook globals -------------------------------------------------
    fs,             \* the file system: which data files exist in which directory
    pc,             \* position of the notebook run
    dir_i,          \* index of the for loop over the data directories
    data_found, data_dir, train_file, test_file,
    exception,      \* the exception that ended the run, "" when none
    next_id,        \* identity given to the next MinibatchSource object
    reader_train, reader_test, reader_eval, reader_viz,
    model_func,     \* the model_func argument of the current train_and_test call
    model,          \* global model (bound when train_and_test returns)
    encoded_model,  \* global bottleneck handle
    results,        \* simple_ae_* and deep_ae_* errors
    eval_data, viz_data,
    \* ---- locals of train_and_test -----------------------------------------
    tt_model,       \* model (owned by trainer)
    i,              \* loop counter of the loop running
    data,           \* minibatch last read
    pp,             \* ProgressPrinter accumulators
    train_error,
    metric_numer, metric_denom, eval_error, test_error,
    \* ---- reader harness ---------------------------------------------------
    rd_training,    \* the is_training argument the reader was created with
    rd, rd_size, rd_data, rd_total,
    \* ---- similarity harness -----------------------------------------------
    img1, img2, cos_out,
    cos_calls, cos_errors,  \* calls made, calls that raised
    \* ---- Inspector cells -------------------------------------------------
    imglabel_raw,   \* one-hot label vectors of viz_data
    img_labels, label_dict,
    digit_index_list,
    cmp_same, cmp_diff,     \* outcome of the same-digit / different-digit comparison
    imgA_encoded_len,       \* len(imgA_encoded[0][0])
    failed_at       \* the cell whose exception ended the run, "" when none

nbVars == <<fs, pc, dir_i, data_found, data_dir, train_file, test_file, exception,
            next_id, reader_train, reader_test, reader_eval, reader_viz,
            model_func, model, encoded_model, results, eval_data, viz_data,
            tt_model, i, data, pp, train_error,
            metric_numer, metric_denom, eval_error, test_error>>
rdVars == <<rd_training, rd, rd_size, rd_data, rd_total>>
cosVars == <<img1, img2, cos_out, cos_calls, cos_errors>>
inspVars == <<imglabel_raw, img_labels, label_dict, digit_index_list, cmp_same,
              cmp_diff, imgA_encoded_len, failed_at>>
vars == <<nbVars, rdVars, cosVars, inspVars>>

Min(a, b) == IF a <= b THEN a ELSE b
Abs(x) == IF x < 0 THEN -x ELSE x

\* ---------------------------------------------------------------------------
\* Program constants
\* ---------------------------------------------------------------------------
isFast == TRUE
input_dim == 784
encoding_dim == 32
num_label_classes == 10
epoch_size == 30000
minibatch_size == 64
num_samples_per_sweep == 60000
test_minibatch_size == 32
num_samples == 10000
eval_minibatch_size == 50
viz_minibatch_size == 50
TrainImages == 60000
TestImages == 10000

num_sweeps_to_train_with == IF isFast THEN 5 ELSE 100

\* the two directories searched, in search order
DataDirs == <<"../Examples/Image/DataSets/MNIST", "data/MNIST">>
TrainName == "Train-28x28_cntk_text.txt"
TestName == "Test-28x28_cntk_text.txt"

\* os.path.join(data_dir, name)
PathJoin(d, name) == [dir |-> d, name |-> name]
NoPath == [dir |-> 0, name |-> ""]

\* os.path.isfile
isfile(path) ==
    /\ path.dir \in DOMAIN fs
    /\ IF path.name = TrainName THEN fs[path.dir].train
       ELSE IF path.name = TestName THEN fs[path.dir].test
       ELSE FALSE

\* number of records of a data file
NumRecords(path) == IF path.name = TrainName THEN TrainImages ELSE TestImages

\* ---------------------------------------------------------------------------
\* Data Source
\* ---------------------------------------------------------------------------
INFINITELY_REPEAT == "INFINITELY_REPEAT"
FULL_DATA_SWEEP == "FULL_DATA_SWEEP"

NoReader == [id |-> 0, path |-> NoPath, randomize |-> FALSE,
             epoch_size |-> FULL_DATA_SWEEP, pos |-> 0, sweep |-> 0, draws |-> 0]
NoBatch == [source |-> 0, first |-> 0, n |-> 0, sweep |-> 0, seq |-> 0]

\* a plausible slip: the two epoch sizes swapped
create_reader_swapped(id, path, is_training) ==
    [id |-> id, path |-> path, randomize |-> is_training,
     epoch_size |-> IF is_training THEN FULL_DATA_SWEEP ELSE INFINITELY_REPEAT,
     pos |-> 0, sweep |-> 0, draws |-> 0]

create_reader(id, path, is_training) ==
    [id |-> id, path |-> path, randomize |-> is_training,
     epoch_size |-> IF is_training THEN INFINITELY_REPEAT ELSE FULL_DATA_SWEEP,
     pos |-> 0, sweep |-> 0, draws |-> 0]

\* MinibatchSource.next_minibatch: the batch returned.  A batch is the run of
\* n samples starting at stream position `first` of sweep `sweep`; under
\* randomize the stream order of a sweep is a permutation of the file order.
next_minibatch(r, size) ==
    IF r.epoch_size = FULL_DATA_SWEEP
    THEN [source |-> r.id, first |-> r.pos,
          n |-> Min(size, NumRecords(r.path) - r.pos),
          sweep |-> r.sweep, seq |-> r.draws + 1]
    ELSE [source |-> r.id, first |-> r.pos, n |-> size,
          sweep |-> r.sweep, seq |-> r.draws + 1]

\* MinibatchSource.next_minibatch: the reader after the call
reader_after(r, size) ==
    IF r.epoch_size = FULL_DATA_SWEEP
    THEN [r EXCEPT !.pos = r.pos + Min(size, NumRecords(r.path) - r.pos),
                   !.draws = r.draws + 1]
    ELSE [r EXCEPT !.pos = (r.pos + size) % NumRecords(r.path),
                   !.sweep = r.sweep + ((r.pos + size) \div NumRecords(r.path)),
                   !.draws = r.draws + 1]

\* ---------------------------------------------------------------------------
\* Model Builder
\* ---------------------------------------------------------------------------
encoding_dims == <<128, 64, 32>>
decoding_dims == <<64, 128>>

NoModel == [func |-> "", layers |-> <<>>, updates |-> 0, digest |-> 0]
NoHandle == [func |-> "", layers |-> <<>>]

Layer(width, activation) == [width |-> width, activation |-> activation]

RECURSIVE DenseStack(_, _)
DenseStack(dims, activation) ==
    IF dims = <<>> THEN <<>>
    ELSE <<Layer(Head(dims), activation)>> \o DenseStack(Tail(dims), activation)

\* a plausible slip: the output stage given the activation of the encoding stage
create_model_relu_out ==
    [func |-> "create_model",
     layers |-> <<Layer(input_dim, "scale"), Layer(encoding_dim, "relu"),
                  Layer(input_dim, "relu")>>,
     updates |-> 0, digest |-> 0]

\* create_model: scale, Dense(encoding_dim, relu), Dense(input_dim, sigmoid)
create_model ==
    [func |-> "create_model",
     layers |-> <<Layer(input_dim, "scale"), Layer(encoding_dim, "relu"),
                  Layer(input_dim, "sigmoid")>>,
     updates |-> 0, digest |-> 0]

\* create_deep_model: scale, the encoding stack, the decoding stack, sigmoid
create_deep_model ==
    [func |-> "create_deep_model",
     layers |-> <<Layer(input_dim, "scale")>> \o DenseStack(encoding_dims, "relu")
                \o DenseStack(decoding_dims, "relu")
                \o <<Layer(input_dim, "sigmoid")>>,
     updates |-> 0, digest |-> 0]

\* a plausible slip: the global statement left out, so the assignment is local
encoded_after_local(func, old) == old

\* the global encoded_model after model_func(input) ran
encoded_after(func, old) ==
    IF func = "create_deep_model"
    THEN [func |-> "create_deep_model",
          layers |-> <<Layer(input_dim, "scale")>> \o DenseStack(encoding_dims, "relu")]
    ELSE old

\* ---------------------------------------------------------------------------
\* Trainer
\* ---------------------------------------------------------------------------
DigestMod == 97

\* C.classification_error(model, target) over a minibatch: the number of
\* samples of the batch counted as errors, a function of parameters and batch
misclassified(m, batch) ==
    (m.digest + m.updates + batch.first + batch.sweep) % (batch.n + 1)

\* Trainer.train_minibatch: one optimizer update of all parameters
train_minibatch(m, batch) ==
    [m EXCEPT !.updates = m.updates + 1,
              !.digest = (m.digest * 31 + batch.first + batch.sweep + 1) % DigestMod]

\* Trainer.test_minibatch: the average error of the batch, parameters untouched
test_minibatch(m, batch) == [num |-> misclassified(m, batch), den |-> batch.n]

\* a plausible slip: the step count taken from epoch_size
num_minibatches_to_train_epoch == (epoch_size * num_sweeps_to_train_with) \div minibatch_size

num_minibatches_to_train == (num_samples_per_sweep * num_sweeps_to_train_with) \div minibatch_size

\* a plausible slip: rounding the batch count up
num_minibatches_to_test_ceil == (num_samples + test_minibatch_size - 1) \div test_minibatch_size

\* int(num_samples / test_minibatch_size)
num_minibatches_to_test == num_samples \div test_minibatch_size


\* ---------------------------------------------------------------------------
\* Rationals (floats of the notebook kept exact)
\* ---------------------------------------------------------------------------
Ratio(n, d) == [num |-> n, den |-> d]
NoValue == Ratio(0, 0)
NoResults == [simple_ae_train_error |-> NoValue, simple_ae_test_error |-> NoValue,
              deep_ae_train_error |-> NoValue, deep_ae_test_error |-> NoValue]

\* ---------------------------------------------------------------------------
\* Cell: data check
\* ---------------------------------------------------------------------------
\* a plausible slip: one file is enough
both_files_or(tf, te) == isfile(tf) \/ isfile(te)

\* os.path.isfile(train_file) and os.path.isfile(test_file)
both_files(tf, te) == isfile(tf) /\ isfile(te)

\* one iteration of `for data_dir in [...]`
DataCheckIter ==
    /\ pc = "data_check"
    /\ dir_i <= Len(DataDirs)
    /\ LET tf == PathJoin(dir_i, TrainName)
           te == PathJoin(dir_i, TestName)
       IN /\ data_dir' = dir_i
          /\ train_file' = tf
          /\ test_file' = te
          /\ IF both_files(tf, te)
             THEN /\ data_found' = TRUE
                  /\ dir_i' = dir_i
                  /\ pc' = "data_raise"
             ELSE /\ data_found' = data_found
                  /\ dir_i' = dir_i + 1
                  /\ pc' = IF dir_i = Len(DataDirs) THEN "data_raise" ELSE "data_check"
    /\ UNCHANGED <<fs, exception, next_id, reader_train, reader_test, reader_eval,
                   reader_viz, model_func, model, encoded_model, results, eval_data,
                   viz_data, tt_model, i, data, pp, train_error, metric_numer,
                   metric_denom, eval_error, test_error>>
    /\ UNCHANGED <<rdVars, cosVars, inspVars>>

\* `if not data_found: raise ValueError(...)`
DataCheckRaise ==
    /\ pc = "data_raise"
    /\ IF ~data_found
       THEN /\ exception' = "ValueError"
            /\ pc' = "error"
            /\ model_func' = model_func
       ELSE /\ exception' = exception
            /\ pc' = "readers"
            /\ model_func' = "create_model"
    /\ UNCHANGED <<fs, dir_i, data_found, data_dir, train_file, test_file, next_id,
                   reader_train, reader_test, reader_eval, reader_viz, model,
                   encoded_model, results, eval_data, viz_data, tt_model, i, data, pp,
                   train_error, metric_numer, metric_denom, eval_error, test_error>>
    /\ UNCHANGED <<rdVars, cosVars, inspVars>>

\* ---------------------------------------------------------------------------
\* Cells: reader_train / reader_test creation and the train_and_test call
\* ---------------------------------------------------------------------------
CreateReaders ==
    /\ pc = "readers"
    /\ reader_train' = create_reader(next_id, train_file, TRUE)
    /\ reader_test' = create_reader(next_id + 1, test_file, FALSE)
    /\ next_id' = next_id + 2
    /\ pc' = "tt_setup"
    /\ UNCHANGED <<fs, dir_i, data_found, data_dir, train_file, test_file, exception,
                   reader_eval, reader_viz, model_func, model, encoded_model, results,
                   eval_data, viz_data, tt_model, i, data, pp, train_error,
                   metric_numer, metric_denom, eval_error, test_error>>
    /\ UNCHANGED <<rdVars, cosVars, inspVars>>

\* train_and_test up to the training loop: model = model_func(input), trainer
TTSetup ==
    /\ pc = "tt_setup"
    /\ tt_model' = IF model_func = "create_model" THEN create_model ELSE create_deep_model
    /\ encoded_model' = encoded_after(model_func, encoded_model)
    /\ i' = 0
    /\ pp' = [samples |-> 0, metric |-> 0]
    /\ data' = NoBatch
    /\ train_error' = NoValue
    /\ test_error' = NoValue
    /\ eval_error' = NoValue
    /\ metric_numer' = 0
    /\ metric_denom' = 0
    /\ pc' = "tt_draw"
    /\ UNCHANGED <<fs, dir_i, data_found, data_dir, train_file, test_file, exception,
                   next_id, reader_train, reader_test, reader_eval, reader_viz,
                   model_func, model, results, eval_data, viz_data>>
    /\ UNCHANGED <<rdVars, cosVars, inspVars>>

\* a plausible slip: the read hoisted out of the loop, later steps reuse the batch
TrainDrawStale ==
    /\ pc = "tt_draw"
    /\ i < (num_samples_per_sweep * num_sweeps_to_train_with) \div minibatch_size
    /\ IF i = 0
       THEN /\ data' = next_minibatch(reader_train, minibatch_size)
            /\ reader_train' = reader_after(reader_train, minibatch_size)
       ELSE UNCHANGED <<data, reader_train>>
    /\ pc' = "tt_train"
    /\ UNCHANGED <<fs, dir_i, data_found, data_dir, train_file, test_file, exception,
                   next_id, reader_test, reader_eval, reader_viz, model_func, model,
                   encoded_model, results, eval_data, viz_data, tt_model, i, pp,
                   train_error, metric_numer, metric_denom, eval_error, test_error>>
    /\ UNCHANGED <<rdVars, cosVars, inspVars>>

\* data = reader_train.next_minibatch(minibatch_size, input_map = input_map)
TrainDraw ==
    /\ pc = "tt_draw"
    /\ i < num_minibatches_to_train
    /\ data' = next_minibatch(reader_train, minibatch_size)
    /\ reader_train' = reader_after(reader_train, minibatch_size)
    /\ pc' = "tt_train"
    /\ UNCHANGED <<fs, dir_i, data_found, data_dir, train_file, test_file, exception,
                   next_id, reader_test, reader_eval, reader_viz, model_func, model,
                   encoded_model, results, eval_data, viz_data, tt_model, i, pp,
                   train_error, metric_numer, metric_denom, eval_error, test_error>>
    /\ UNCHANGED <<rdVars, cosVars, inspVars>>

\* trainer.train_minibatch(data); pp.update_with_trainer(trainer, with_metric=True)
TrainUpdate ==
    /\ pc = "tt_train"
    /\ tt_model' = train_minibatch(tt_model, data)
    /\ pp' = [samples |-> pp.samples + data.n,
              metric |-> pp.metric + misclassified(tt_model, data)]
    /\ i' = i + 1
    /\ pc' = "tt_draw"
    /\ UNCHANGED <<fs, dir_i, data_found, data_dir, train_file, test_file, exception,
                   next_id, reader_train, reader_test, reader_eval, reader_viz,
                   model_func, model, encoded_model, results, eval_data, viz_data,
                   data, train_error, metric_numer, metric_denom, eval_error,
                   test_error>>
    /\ UNCHANGED <<rdVars, cosVars, inspVars>>

\* end of the training loop: train_error, then the test configuration
TrainEnd ==
    /\ pc = "tt_draw"
    /\ i >= num_minibatches_to_train
    /\ train_error' = Ratio(pp.metric * 100, pp.samples)
    /\ metric_numer' = 0
    /\ metric_denom' = 0
    /\ i' = 0
    /\ pc' = "tt_test_draw"
    /\ UNCHANGED <<fs, dir_i, data_found, data_dir, train_file, test_file, exception,
                   next_id, reader_train, reader_test, reader_eval, reader_viz,
                   model_func, model, encoded_model, results, eval_data, viz_data,
                   tt_model, data, pp, eval_error, test_error>>
    /\ UNCHANGED <<rdVars, cosVars, inspVars>>

\* a plausible slip: the test draw asks for the training batch size
TestDrawTrainSize ==
    /\ pc = "tt_test_draw"
    /\ i < num_minibatches_to_test
    /\ data' = next_minibatch(reader_test, minibatch_size)
    /\ reader_test' = reader_after(reader_test, minibatch_size)
    /\ pc' = "tt_test_eval"
    /\ UNCHANGED <<fs, dir_i, data_found, data_dir, train_file, test_file, exception,
                   next_id, reader_train, reader_eval, reader_viz, model_func, model,
                   encoded_model, results, eval_data, viz_data, tt_model, i, pp,
                   train_error, metric_numer, metric_denom, eval_error, test_error>>
    /\ UNCHANGED <<rdVars, cosVars, inspVars>>

\* data = reader_test.next_minibatch(test_minibatch_size, input_map = test_input_map)
TestDraw ==
    /\ pc = "tt_test_draw"
    /\ i < num_minibatches_to_test
    /\ data' = next_minibatch(reader_test, test_minibatch_size)
    /\ reader_test' = reader_after(reader_test, test_minibatch_size)
    /\ pc' = "tt_test_eval"
    /\ UNCHANGED <<fs, dir_i, data_found, data_dir, train_file, test_file, exception,
                   next_id, reader_train, reader_eval, reader_viz, model_func, model,
                   encoded_model, results, eval_data, viz_data, tt_model, i, pp,
                   train_error, metric_numer, metric_denom, eval_error, test_error>>
    /\ UNCHANGED <<rdVars, cosVars, inspVars>>

\* a plausible slip: the test loop calls trainer.train_minibatch
test_loop_call_train(m, batch) ==
    [model |-> train_minibatch(m, batch), eval_error |-> test_minibatch(m, batch)]

\* eval_error = trainer.test_minibatch(data): the model after, the value returned
test_loop_call(m, batch) ==
    [model |-> m, eval_error |-> test_minibatch(m, batch)]

\* a plausible slip: the numerator accumulates the bare error
numer_add_unweighted(err) == IF err.den = 0 THEN 0 ELSE err.num \div err.den

\* np.abs(eval_error * test_minibatch_size)
numer_add(err) ==
    IF err.den = 0 THEN 0 ELSE Abs(err.num * test_minibatch_size) \div err.den

\* body of the test loop after the draw
TestEval ==
    /\ pc = "tt_test_eval"
    /\ LET r == test_loop_call(tt_model, data)
       IN /\ tt_model' = r.model
          /\ eval_error' = r.eval_error
          /\ metric_numer' = metric_numer + numer_add(r.eval_error)
    /\ metric_denom' = metric_denom + test_minibatch_size
    /\ i' = i + 1
    /\ pc' = "tt_test_draw"
    /\ UNCHANGED <<fs, dir_i, data_found, data_dir, train_file, test_file, exception,
                   next_id, reader_train, reader_test, reader_eval, reader_viz,
                   model_func, model, encoded_model, results, eval_data, viz_data,
                   data, pp, train_error, test_error>>
    /\ UNCHANGED <<rdVars, cosVars, inspVars>>

\* test_error = (metric_numer*100.0) / (metric_denom); return model, train_error, test_error
TestEnd ==
    /\ pc = "tt_test_draw"
    /\ i >= num_minibatches_to_test
    /\ test_error' = Ratio(metric_numer * 100, metric_denom)
    /\ model' = tt_model
    /\ results' = IF model_func = "create_model"
                  THEN [results EXCEPT !.simple_ae_train_error = train_error,
                                       !.simple_ae_test_error = test_error']
                  ELSE [results EXCEPT !.deep_ae_train_error = train_error,
                                       !.deep_ae_test_error = test_error']
    /\ pc' = IF model_func = "create_model" THEN "eval_cell" ELSE "viz_cell"
    /\ UNCHANGED <<fs, dir_i, data_found, data_dir, train_file, test_file, exception,
                   next_id, reader_train, reader_test, reader_eval, reader_viz,
                   model_func, encoded_model, eval_data, viz_data, tt_model, i, data,
                   pp, train_error, metric_numer, metric_denom, eval_error>>
    /\ UNCHANGED <<rdVars, cosVars, inspVars>>

\* ---------------------------------------------------------------------------
\* Cell: visualise the simple autoencoder (reader_eval, eval_data)
\* ---------------------------------------------------------------------------
EvalCell ==
    /\ pc = "eval_cell"
    /\ LET r == create_reader(next_id, test_file, FALSE)
       IN /\ eval_data' = next_minibatch(r, eval_minibatch_size)
          /\ reader_eval' = reader_after(r, eval_minibatch_size)
    /\ next_id' = next_id + 1
    /\ pc' = "deep_def"
    /\ UNCHANGED <<fs, dir_i, data_found, data_dir, train_file, test_file, exception,
                   reader_train, reader_test, reader_viz, model_func, model,
                   encoded_model, results, viz_data, tt_model, i, data, pp,
                   train_error, metric_numer, metric_denom, eval_error, test_error>>
    /\ UNCHANGED <<rdVars, cosVars, inspVars>>

\* Cell: encoding_dims, decoding_dims, encoded_model = None, def create_deep_model
DeepDef ==
    /\ pc = "deep_def"
    /\ encoded_model' = NoHandle
    /\ model_func' = "create_deep_model"
    /\ pc' = "readers"
    /\ UNCHANGED <<fs, dir_i, data_found, data_dir, train_file, test_file, exception,
                   next_id, reader_train, reader_test, reader_eval, reader_viz, model,
                   results, eval_data, viz_data, tt_model, i, data, pp, train_error,
                   metric_numer, metric_denom, eval_error, test_error>>
    /\ UNCHANGED <<rdVars, cosVars, inspVars>>

\* ---------------------------------------------------------------------------
\* Label vectors of the data file
\* ---------------------------------------------------------------------------
MaxFree == 2

\* |labels 0 0 0 0 0 0 0 1 0 0 : the one-hot vector of class c
OneHot(c) == [k \in 1..num_label_classes |-> IF k = c + 1 THEN 1 ELSE 0]

\* the classes of the samples after the first MaxFree ones: all of class 0, or
\* the classes in rotation
Backgrounds(n) == {[k \in 1..n |-> 0], [k \in 1..n |-> k % num_label_classes]}

\* the label vectors a batch of n samples may carry: any class for the first
\* MaxFree samples, a background for the others
LabelVectors(n) ==
    {[k \in 1..n |-> OneHot(IF k <= MaxFree THEN f[k] ELSE bg[k])] :
        f \in [1..MaxFree -> 0..(num_label_classes - 1)], bg \in Backgrounds(n)}

\* ---------------------------------------------------------------------------
\* Cell: read image data and labels (reader_viz, viz_data)
\* ---------------------------------------------------------------------------
VizCell ==
    /\ pc = "viz_cell"
    /\ reader_viz' = create_reader(next_id, test_file, FALSE)
    /\ next_id' = next_id + 1
    /\ viz_data' = next_minibatch(reader_eval, viz_minibatch_size)
    /\ reader_eval' = reader_after(reader_eval, viz_minibatch_size)
    /\ imglabel_raw' \in LabelVectors(viz_data'.n)
    /\ pc' = "label_cell"
    /\ UNCHANGED <<fs, dir_i, data_found, data_dir, train_file, test_file, exception,
                   reader_train, reader_test, model_func, model, encoded_model,
                   results, eval_data, tt_model, i, data, pp, train_error,
                   metric_numer, metric_denom, eval_error, test_error>>
    /\ UNCHANGED <<rdVars, cosVars>>
    /\ UNCHANGED <<img_labels, label_dict, digit_index_list, cmp_same, cmp_diff,
                   imgA_encoded_len, failed_at>>

\* ---------------------------------------------------------------------------
\* Inspector cells
\* ---------------------------------------------------------------------------
\* a comparison cell that has not run
NoCmp == [status |-> "", a |-> 0, b |-> 0]

digit_of_interest == 6
digitA == 3
digitB == 8

\* every notebook variable but pc and exception
nbKept == <<fs, dir_i, data_found, data_dir, train_file, test_file, next_id,
            reader_train, reader_test, reader_eval, reader_viz, model_func, model,
            encoded_model, results, eval_data, viz_data, tt_model, i, data, pp,
            train_error, metric_numer, metric_denom, eval_error, test_error>>

RECURSIVE ArgMaxFrom(_, _, _)
\* index (from 0) of the first maximum of v among components k..Len(v), best so far b
ArgMaxFrom(v, k, b) ==
    IF k > Len(v) THEN b - 1
    ELSE ArgMaxFrom(v, k + 1, IF v[k] > v[b] THEN k ELSE b)

\* np.argmax
argmax(v) == ArgMaxFrom(v, 1, 1)

EmptyDict == <<>>

\* label_dict[key] on a defaultdict(list): the value read
DictGet(d, key) == IF key \in DOMAIN d THEN d[key] ELSE <<>>

\* label_dict[key] on a defaultdict(list): the dict after the read, where a
\* missing key has been inserted with an empty list (@@ keeps d's own entries)
DictTouch(d, key) == d @@ (key :> <<>>)

\* the dict after `for img_idx, img_label in enumerate(labels)` appended every
\* img_idx to the list of its label: the keys are the labels met, and the list
\* of a key holds, in the order of the enumeration, the indices carrying it
GroupedBy(labels) ==
    [c \in {labels[k] : k \in 1..Len(labels)} |->
        SelectSeq([k \in 1..Len(labels) |-> k - 1], LAMBDA idx : labels[idx + 1] = c)]

\* a plausible slip: enumerate starts at the second label
group_labels_skip_first(labels) == IF labels = <<>> THEN EmptyDict ELSE GroupedBy(Tail(labels))

\* label_dict after the loop of lines 637-639
group_labels(labels) == GroupedBy(labels)

\* randIdx = [1, 3, 9]; the print reads label_dict[randIdx[0]], [1] and [2]
print_groups(d) == DictTouch(DictTouch(DictTouch(d, 1), 3), 9)

\* Cell: img_labels, label_dict, the print of groups 1, 3 and 9
LabelCell ==
    /\ pc = "label_cell"
    /\ img_labels' = [k \in 1..Len(imglabel_raw) |-> argmax(imglabel_raw[k])]
    /\ label_dict' = print_groups(group_labels(img_labels'))
    /\ pc' = "same_cell"
    /\ UNCHANGED <<nbKept, exception>>
    /\ UNCHANGED <<rdVars, cosVars>>
    /\ UNCHANGED <<imglabel_raw, digit_index_list, cmp_same, cmp_diff,
                   imgA_encoded_len, failed_at>>

\* size of a row of img_data
ImageSize == input_dim

\* size of model.eval([img])
DecodedSize(m) == m.layers[Len(m.layers)].width

\* the outcome of image_pair_cosine_distance on images of sizes s1 and s2 (the
\* similarity itself is not kept)
CompareSizes(s1, s2) == IF s1 # s2 THEN "ValueError" ELSE "compared"

\* Cell: distance between two images of digit_of_interest
SameDigitCell ==
    /\ pc = "same_cell"
    /\ digit_index_list' = DictGet(label_dict, digit_of_interest)
    /\ label_dict' = DictTouch(label_dict, digit_of_interest)
    /\ IF Len(digit_index_list') < 2
       THEN /\ cmp_same' = [status |-> "skipped", a |-> 0, b |-> 0]
            /\ pc' = "encoded_cell"
            /\ UNCHANGED <<exception, failed_at>>
       ELSE LET a == digit_index_list'[1]
                b == digit_index_list'[2]
                r1 == CompareSizes(ImageSize, ImageSize)
                r2 == CompareSizes(DecodedSize(model), DecodedSize(model))
            IN IF r1 = "ValueError" \/ r2 = "ValueError"
               THEN /\ cmp_same' = NoCmp
                    /\ exception' = "ValueError"
                    /\ failed_at' = "same_cell"
                    /\ pc' = "error"
               ELSE /\ cmp_same' = [status |-> "compared", a |-> a, b |-> b]
                    /\ pc' = "encoded_cell"
                    /\ UNCHANGED <<exception, failed_at>>
    /\ UNCHANGED nbKept
    /\ UNCHANGED <<rdVars, cosVars>>
    /\ UNCHANGED <<imglabel_raw, img_labels, cmp_diff, imgA_encoded_len>>

\* a plausible slip: the handle evaluated is the whole model
encoded_eval_len_model(handle, m) == m.layers[Len(m.layers)].width

\* len(encoded_model.eval([imgA])[0][0])
encoded_eval_len(handle, m) == handle.layers[Len(handle.layers)].width

\* Cell: imgA = img_data[digit_index_list[0]]; imgA_encoded = encoded_model.eval([imgA])
EncodedCell ==
    /\ pc = "encoded_cell"
    /\ IF Len(digit_index_list) < 1
       THEN /\ exception' = "IndexError"
            /\ failed_at' = "encoded_cell"
            /\ pc' = "error"
            /\ UNCHANGED imgA_encoded_len
       ELSE IF encoded_model = NoHandle
       THEN /\ exception' = "AttributeError"
            /\ failed_at' = "encoded_cell"
            /\ pc' = "error"
            /\ UNCHANGED imgA_encoded_len
       ELSE /\ imgA_encoded_len' = encoded_eval_len(encoded_model, model)
            /\ pc' = "diff_cell"
            /\ UNCHANGED <<exception, failed_at>>
    /\ UNCHANGED nbKept
    /\ UNCHANGED <<rdVars, cosVars>>
    /\ UNCHANGED <<imglabel_raw, img_labels, label_dict, digit_index_list, cmp_same,
                   cmp_diff>>

\* Cell: distance between an image of digitA and an image of digitB
DiffDigitCell ==
    /\ pc = "diff_cell"
    /\ label_dict' = DictTouch(DictTouch(label_dict, digitA), digitB)
    /\ LET digitA_index == DictGet(label_dict, digitA)
           digitB_index == DictGet(label_dict, digitB)
       IN IF Len(digitA_index) < 1 \/ Len(digitB_index) < 1
          THEN /\ exception' = "IndexError"
               /\ failed_at' = "diff_cell"
               /\ pc' = "error"
               /\ UNCHANGED cmp_diff
          ELSE LET r1 == CompareSizes(ImageSize, ImageSize)
                   r2 == CompareSizes(DecodedSize(model), DecodedSize(model))
               IN IF r1 = "ValueError" \/ r2 = "ValueError"
                  THEN /\ exception' = "ValueError"
                       /\ failed_at' = "diff_cell"
                       /\ pc' = "error"
                       /\ UNCHANGED cmp_diff
                  ELSE /\ cmp_diff' = [status |-> "compared", a |-> digitA_index[1],
                                       b |-> digitB_index[1]]
                       /\ pc' = "done"
                       /\ UNCHANGED <<exception, failed_at>>
    /\ UNCHANGED nbKept
    /\ UNCHANGED <<rdVars, cosVars>>
    /\ UNCHANGED <<imglabel_raw, img_labels, digit_index_list, cmp_same,
                   imgA_encoded_len>>

\* ---------------------------------------------------------------------------
\* Initial states
\* ---------------------------------------------------------------------------
FileSystems == [1..Len(DataDirs) -> [train : BOOLEAN, test : BOOLEAN]]

NotebookFresh ==
    /\ dir_i = 1
    /\ data_found = FALSE
    /\ data_dir = 0
    /\ train_file = NoPath
    /\ test_file = NoPath
    /\ exception = ""
    /\ next_id = 1
    /\ reader_train = NoReader
    /\ reader_test = NoReader
    /\ reader_eval = NoReader
    /\ reader_viz = NoReader
    /\ model_func = ""
    /\ model = NoModel
    /\ encoded_model = NoHandle
    /\ results = NoResults
    /\ eval_data = NoBatch
    /\ viz_data = NoBatch
    /\ tt_model = NoModel
    /\ i = 0
    /\ data = NoBatch
    /\ pp = [samples |-> 0, metric |-> 0]
    /\ train_error = NoValue
    /\ metric_numer = 0
    /\ metric_denom = 0
    /\ eval_error = NoValue
    /\ test_error = NoValue

ReaderIdle ==
    /\ rd_training = FALSE
    /\ rd = NoReader
    /\ rd_size = 0
    /\ rd_data = NoBatch
    /\ rd_total = 0

NoOut == [kind |-> "none", one |-> 0, coef |-> 0, num |-> 0, densq |-> 0]


InspectFresh ==
    /\ imglabel_raw = <<>>
    /\ img_labels = <<>>
    /\ label_dict = <<>>
    /\ digit_index_list = <<>>
    /\ cmp_same = NoCmp
    /\ cmp_diff = NoCmp
    /\ imgA_encoded_len = 0
    /\ failed_at = ""

CosIdle ==
    /\ img1 = <<>>
    /\ img2 = <<>>
    /\ cos_out = NoOut
    /\ cos_calls = 0
    /\ cos_errors = 0

Init ==
    /\ fs \in FileSystems
    /\ pc = "data_check"
    /\ NotebookFresh
    /\ ReaderIdle
    /\ CosIdle
    /\ InspectFresh

Next ==
    \/ DataCheckIter
    \/ DataCheckRaise
    \/ CreateReaders
    \/ TTSetup
    \/ TrainDraw
    \/ TrainUpdate
    \/ TrainEnd
    \/ TestDraw
    \/ TestEval
    \/ TestEnd
    \/ EvalCell
    \/ DeepDef
    \/ VizCell
    \/ LabelCell
    \/ SameDigitCell
    \/ EncodedCell
    \/ DiffDigitCell

Spec == Init /\ [][Next]_vars

\* ---------------------------------------------------------------------------
\* Notebook run in which a call of the training loop may raise
\* ---------------------------------------------------------------------------
\* a plausible slip: the draw wrapped in try/except, the loop going on
TrainDrawFailsRetry ==
    /\ pc = "tt_draw"
    /\ i < num_minibatches_to_train
    /\ failed_at = ""
    /\ exception' = "RuntimeError"
    /\ failed_at' = "train_draw"
    /\ pc' = "tt_draw"
    /\ UNCHANGED nbKept
    /\ UNCHANGED <<rdVars, cosVars>>
    /\ UNCHANGED <<imglabel_raw, img_labels, label_dict, digit_index_list, cmp_same,
                   cmp_diff, imgA_encoded_len>>

\* reader_train.next_minibatch raises: nothing in the loop or around the call
\* of train_and_test catches it
TrainDrawFails ==
    /\ pc = "tt_draw"
    /\ i < num_minibatches_to_train
    /\ exception' = "RuntimeError"
    /\ failed_at' = "train_draw"
    /\ pc' = "error"
    /\ UNCHANGED nbKept
    /\ UNCHANGED <<rdVars, cosVars>>
    /\ UNCHANGED <<imglabel_raw, img_labels, label_dict, digit_index_list, cmp_same,
                   cmp_diff, imgA_encoded_len>>

\* trainer.train_minibatch raises: likewise uncaught
TrainUpdateFails ==
    /\ pc = "tt_train"
    /\ exception' = "RuntimeError"
    /\ failed_at' = "train_update"
    /\ pc' = "error"
    /\ UNCHANGED nbKept
    /\ UNCHANGED <<rdVars, cosVars>>
    /\ UNCHANGED <<imglabel_raw, img_labels, label_dict, digit_index_list, cmp_same,
                   cmp_diff, imgA_encoded_len>>

NextFail ==
    \/ Next
    \/ TrainDrawFails
    \/ TrainUpdateFails

SpecFail == Init /\ [][NextFail]_vars


\* ---------------------------------------------------------------------------
\* Data Source on its own: a reader made by create_reader, drawn from repeatedly
\* ---------------------------------------------------------------------------
MaxDraws == 320

AllFiles == [d \in 1..Len(DataDirs) |-> [train |-> TRUE, test |-> TRUE]]
DrawSizes == {test_minibatch_size, eval_minibatch_size, minibatch_size}

InitReader ==
    /\ fs = AllFiles
    /\ pc = "harness"
    /\ NotebookFresh
    /\ CosIdle
    /\ InspectFresh
    /\ rd_training \in BOOLEAN
    /\ \E name \in {TrainName, TestName} :
          rd = create_reader(1, PathJoin(1, name), rd_training)
    /\ rd_size \in DrawSizes
    /\ rd_data = NoBatch
    /\ rd_total = 0

\* rd.next_minibatch(rd_size)
ReaderDraw ==
    /\ pc = "harness"
    /\ rd.id # 0
    /\ rd.draws < MaxDraws
    /\ rd_data' = next_minibatch(rd, rd_size)
    /\ rd' = reader_after(rd, rd_size)
    /\ rd_total' = rd_total + rd_data'.n
    /\ UNCHANGED <<rd_training, rd_size>>
    /\ UNCHANGED <<nbVars, cosVars, inspVars>>

NextReader == ReaderDraw

SpecReader == InitReader /\ [][NextReader]_vars

\* ---------------------------------------------------------------------------
\* Inspector: image_pair_cosine_distance on its own
\* ---------------------------------------------------------------------------
MaxLen == 2
MaxPix == 2
MaxCalls == 2

Vectors == UNION {[1..n -> 0..MaxPix] : n \in 1..MaxLen}

RECURSIVE Dot(_, _, _)
\* np.dot over the first k components
Dot(u, v, k) == IF k = 0 THEN 0 ELSE Dot(u, v, k - 1) + u[k] * v[k]

\* A float result is kept exact as  one + coef * num / sqrt(densq);
\* kind "nan" is the outcome of the division 0/0.
\* scipy.spatial.distance.cosine(u, v) = 1 - u.v / (||u|| ||v||)
cosine(u, v) ==
    LET uv == Dot(u, v, Len(u))
        uu == Dot(u, u, Len(u))
        vv == Dot(v, v, Len(v))
    IN [kind |-> IF uu * vv = 0 THEN "nan" ELSE "value",
        one |-> 1, coef |-> -1, num |-> uv, densq |-> uu * vv]

\* 1 - x
OneMinus(x) == [x EXCEPT !.one = 1 - x.one, !.coef = -x.coef]

ValueError == [kind |-> "ValueError", one |-> 0, coef |-> 0, num |-> 0, densq |-> 0]

\* a plausible slip: the size check dropped, the common prefix compared
image_pair_cosine_distance_unchecked(a, b) ==
    LET k == Min(Len(a), Len(b))
    IN OneMinus(cosine(SubSeq(a, 1, k), SubSeq(b, 1, k)))

\* a plausible slip: the distance returned instead of 1 - distance
image_pair_cosine_distance_raw(a, b) ==
    IF Len(a) # Len(b) THEN ValueError ELSE cosine(a, b)

image_pair_cosine_distance(a, b) ==
    IF Len(a) # Len(b) THEN ValueError ELSE OneMinus(cosine(a, b))

\* the float denoted equals 1.0
Equals1(x) ==
    /\ x.kind = "value"
    /\ \/ x.one = 1 /\ (x.coef = 0 \/ x.num = 0)
       \/ x.one = 0 /\ x.coef = 1 /\ x.num > 0 /\ x.num * x.num = x.densq
       \/ x.one = 2 /\ x.coef = -1 /\ x.num > 0 /\ x.num * x.num = x.densq

InitCos ==
    /\ fs = AllFiles
    /\ pc = "harness"
    /\ NotebookFresh
    /\ ReaderIdle
    /\ InspectFresh
    /\ img1 \in Vectors
    /\ img2 \in Vectors
    /\ cos_out = NoOut
    /\ cos_calls = 0
    /\ cos_errors = 0

\* image_pair_cosine_distance(img1, img2)
CosCall ==
    /\ pc = "harness"
    /\ cos_out = NoOut
    /\ cos_out' = image_pair_cosine_distance(img1, img2)
    /\ cos_calls' = cos_calls + 1
    /\ cos_errors' = IF cos_out'.kind = "ValueError" THEN cos_errors + 1 ELSE cos_errors
    /\ UNCHANGED <<img1, img2>>
    /\ UNCHANGED <<nbVars, rdVars, inspVars>>

\* the caller goes on to compare the first image with another one
CosNext ==
    /\ pc = "harness"
    /\ cos_out # NoOut
    /\ cos_calls < MaxCalls
    /\ img2' \in Vectors
    /\ cos_out' = NoOut
    /\ UNCHANGED <<img1, cos_calls, cos_errors>>
    /\ UNCHANGED <<nbVars, rdVars, inspVars>>

NextCos == CosCall \/ CosNext

SpecCos == InitCos /\ [][NextCos]_vars

\* ---------------------------------------------------------------------------
\* Claims about the notebook run (specification Spec)
\* ---------------------------------------------------------------------------
InTrainLoop == pc \in {"tt_draw", "tt_train"}
InTestLoop == pc \in {"tt_test_draw", "tt_test_eval"}
Returned == pc \in {"eval_cell", "viz_cell"}

\* C1: every step of the test loop of train_and_test (the draw and the
\* trainer.test_minibatch call) leaves the model parameters as they were, so the
\* evaluation error is a function of the trained model and the test data alone.
C1_EvaluatorKeepsParameters ==
    [][InTestLoop => /\ tt_model' = tt_model
                     /\ model' = model \/ (pc' \in {"eval_cell", "viz_cell"} /\ model' = tt_model)]_vars

\* C1 witness: evaluation batches have been processed on a trained model
C1_Witness ==
    /\ pc = "tt_test_draw"
    /\ i > 0
    /\ tt_model.updates > 0
    /\ eval_error.den > 0

\* C2: in the training loop draws and updates strictly alternate, every update
\* consumes the batch drawn in its own step, and the number of updates is the
\* number of batches drawn or one less.
C2_DrawThenUpdate ==
    [][InTrainLoop =>
         /\ tt_model.updates \in {reader_train.draws, reader_train.draws - 1}
         /\ (reader_train'.draws # reader_train.draws =>
                /\ reader_train.draws = tt_model.updates
                /\ reader_train'.draws = reader_train.draws + 1
                /\ tt_model' = tt_model
                /\ data'.source = reader_train.id
                /\ data'.seq = reader_train'.draws)
         /\ (tt_model'.updates # tt_model.updates =>
                /\ reader_train.draws = tt_model.updates + 1
                /\ tt_model'.updates = tt_model.updates + 1
                /\ data.source = reader_train.id
                /\ data.seq = tt_model'.updates
                /\ reader_train' = reader_train)]_vars

\* C2 witness: an update has been applied and the next batch is already drawn
C2_Witness ==
    /\ pc = "tt_train"
    /\ tt_model.updates >= 2
    /\ reader_train.draws = tt_model.updates + 1

\* C3 as stated: the training loop ends after (30000 x 5) / 64 update steps
C3_StepsFromEpochSize ==
    InTestLoop => tt_model.updates = (30000 * 5) \div 64

\* C3 amended: the training loop ends after (60000 x 5) // 64 = 4687 update
\* steps: the count comes from num_samples_per_sweep, not from epoch_size.
C3_StepsFromSweepSize ==
    /\ InTestLoop => /\ tt_model.updates = 4687
                     /\ reader_train.draws = 4687
                     /\ pp.samples = 4687 * 64
    /\ InTrainLoop => tt_model.updates <= 4687

\* C3 witness: the training loop has just ended
C3_Witness ==
    /\ pc = "tt_test_draw"
    /\ i = 0
    /\ train_error.den > 0

\* C4: the evaluation pass reads exactly 312 batches of 32 samples and then
\* produces its one aggregate test error.
C4_TestBatches ==
    /\ InTrainLoop \/ InTestLoop => test_error = NoValue
    /\ InTestLoop => reader_test.draws <= 312
    /\ Returned => /\ reader_test.draws = 312
                   /\ i = 312
                   /\ test_error # NoValue
                   /\ test_error.den = 312 * 32

\* C4 witness: train_and_test has returned from an evaluation pass
C4_Witness ==
    /\ pc = "viz_cell"
    /\ reader_test.draws > 0
    /\ results.deep_ae_test_error = test_error

\* the k-th batch (from 0) of an evaluation pass over the test reader
TestBatch(k) ==
    [source |-> reader_test.id, first |-> k * test_minibatch_size,
     n |-> test_minibatch_size, sweep |-> 0, seq |-> k + 1]

\* error x batch size of one batch
ErrTimesSize(m, batch) ==
    (test_minibatch(m, batch).num * test_minibatch_size) \div test_minibatch(m, batch).den

RECURSIVE SumErrRange(_, _, _)
\* sum of error x batch size over batches lo .. hi - 1 (halving keeps the
\* evaluation shallow)
SumErrRange(m, lo, hi) ==
    IF hi <= lo THEN 0
    ELSE IF hi = lo + 1 THEN ErrTimesSize(m, TestBatch(lo))
    ELSE SumErrRange(m, lo, (lo + hi) \div 2) + SumErrRange(m, (lo + hi) \div 2, hi)

\* sum of error x batch size over the first k batches
SumErrTimesSize(m, k) == SumErrRange(m, 0, k)

\* C5: the accumulator starts a pass at zero; after k batches the denominator is
\* k x batch size and the numerator the sum of error x batch size over those
\* batches; the reported test error is 100 x numerator / denominator.
C5_MetricAccumulator ==
    /\ InTestLoop =>
         /\ metric_denom = reader_test.draws * test_minibatch_size
            \/ (pc = "tt_test_eval"
                /\ metric_denom = (reader_test.draws - 1) * test_minibatch_size)
         /\ metric_denom = i * test_minibatch_size
         /\ metric_numer = SumErrTimesSize(tt_model, i)
    /\ Returned =>
         /\ metric_numer = SumErrTimesSize(tt_model, i)
         /\ metric_denom = i * test_minibatch_size
         /\ test_error = Ratio(100 * metric_numer, metric_denom)

\* C5 witness: a pass has accumulated several batches with a non-zero error sum
C5_Witness ==
    /\ pc = "tt_test_draw"
    /\ i >= 3
    /\ metric_numer > 0
    /\ metric_denom = i * test_minibatch_size

\* C7 as stated: every batch is drawn from the Data Source created for its
\* pass, so every evaluation-mode pass starts at the first sample of its file.
C7_ReaderPerPass ==
    /\ pc = "tt_train" => data.source = reader_train.id
    /\ pc = "tt_test_eval" => data.source = reader_test.id
    /\ eval_data # NoBatch => eval_data.source = reader_eval.id /\ eval_data.first = 0
    /\ viz_data # NoBatch => viz_data.source = reader_viz.id /\ viz_data.first = 0

DirHasBoth(d) == fs[d].train /\ fs[d].test
Checked == pc \notin {"data_check", "data_raise"}
NothingStarted ==
    /\ next_id = 1
    /\ reader_train = NoReader /\ reader_test = NoReader
    /\ reader_eval = NoReader /\ reader_viz = NoReader
    /\ data = NoBatch /\ eval_data = NoBatch /\ viz_data = NoBatch
    /\ tt_model = NoModel /\ model = NoModel

\* C8: a data file missing from every searched directory ends the run with
\* ValueError before any reader is created, any batch drawn or any training
\* step taken; when some directory holds both files the data check raises no
\* error (an error of the run is then one of a later cell) and the first such
\* directory in search order is used.
C8_MissingDataIsFatal ==
    /\ ~Checked => NothingStarted /\ exception = ""
    /\ (Checked /\ ((\A d \in DOMAIN fs : ~fs[d].train) \/ (\A d \in DOMAIN fs : ~fs[d].test))) =>
         /\ pc = "error"
         /\ exception = "ValueError"
         /\ NothingStarted
    /\ (Checked /\ (\E d \in DOMAIN fs : DirHasBoth(d))) =>
         /\ pc = "error" \/ exception # "" => failed_at # ""
         /\ DirHasBoth(data_dir)
         /\ \A d \in DOMAIN fs : DirHasBoth(d) => data_dir <= d
         /\ train_file = PathJoin(data_dir, TrainName)
         /\ test_file = PathJoin(data_dir, TestName)

\* C8 witness: the training file exists but the test file is nowhere
C8_Witness ==
    /\ pc = "error"
    /\ exception = "ValueError"
    /\ fs[2].train
    /\ \A d \in DOMAIN fs : ~fs[d].test


\* ---------------------------------------------------------------------------
\* Claims about the Data Source (specification SpecReader)
\* ---------------------------------------------------------------------------
\* C6: a reader created with is_training = True is shuffled and never reports
\* exhaustion, every draw returns a full batch; a reader created with
\* is_training = False keeps file order, stays in its first sweep, yields
\* consecutive runs of samples (so no sample twice) and never yields more than
\* the file holds (so nothing after the last sample).
C6_ReaderModes ==
    /\ rd_training =>
         /\ rd.randomize
         /\ rd.draws > 0 => rd_data.n = rd_size /\ rd_data.n > 0
         /\ rd_total = rd.draws * rd_size
    /\ ~rd_training =>
         /\ ~rd.randomize
         /\ rd.sweep = 0
         /\ rd_total <= NumRecords(rd.path)
         /\ rd.draws > 0 =>
              /\ rd_data.sweep = 0
              /\ rd_data.first = rd_total - rd_data.n
              /\ rd_data.first + rd_data.n <= NumRecords(rd.path)
              /\ rd_data.n = rd_size \/ rd_total = NumRecords(rd.path)

\* C6 witness: an evaluation-mode reader has yielded its whole file and the
\* draw after that came back empty
C6_Witness ==
    /\ ~rd_training
    /\ rd_total = NumRecords(rd.path)
    /\ rd.draws > 0
    /\ rd_data.n = 0

\* a training-mode reader has gone round its file and still yields full batches
C6_WitnessTraining ==
    /\ rd_training
    /\ rd.sweep >= 1
    /\ rd_data.n = rd_size

C10_SelfSimilarityAlwaysOne ==
    (cos_out # NoOut /\ img1 = img2) => Equals1(cos_out)

\* C10 amended: image_pair_cosine_distance(v, v) is 1.0 for every v with a
\* non-zero component; for the all-zero vector the result is NaN (0/0).
C10_SelfSimilarityNonZero ==
    (cos_out # NoOut /\ img1 = img2) =>
        IF \E k \in DOMAIN img1 : img1[k] # 0
        THEN Equals1(cos_out)
        ELSE cos_out.kind = "nan"

\* C10 witness: a vector with two different non-zero components compared with itself
C10_Witness ==
    /\ cos_out.kind = "value"
    /\ img1 = img2
    /\ Len(img1) = 2
    /\ img1[1] # 0 /\ img1[2] # 0 /\ img1[1] # img1[2]

\* ---------------------------------------------------------------------------
\* C11
\* ---------------------------------------------------------------------------
\* the label cell has just run
Grouped == pc = "same_cell"

\* the places <<c, p>> of label_dict
Places == UNION {{<<c, p>> : p \in 1..Len(label_dict[c])} : c \in DOMAIN label_dict}

\* class c is the arg-max of label vector v: the first position of the largest
IsArgMax(v, c) ==
    /\ c + 1 \in DOMAIN v
    /\ \A j \in DOMAIN v : v[j] <= v[c + 1] /\ (j < c + 1 => v[j] < v[c + 1])

\* C11: once label_dict is built from the one-hot label vectors of the batch of
\* N = 50 samples, every sample index 0..N-1 is in exactly one group, every key
\* is a class in 0..9, the indices of a group are ascending, and a sample is in
\* group c exactly when the arg-max of its label vector is c.
C11_LabelGroupingIsPartition ==
    Grouped =>
        LET N == Len(imglabel_raw)
            P == Places
        IN /\ N = viz_minibatch_size
           /\ DOMAIN label_dict \subseteq 0..(num_label_classes - 1)
           /\ \A idx \in 0..(N - 1) :
                 \E cp \in P : label_dict[cp[1]][cp[2]] = idx
           /\ \A cp \in P : \A cq \in P :
                 label_dict[cp[1]][cp[2]] = label_dict[cq[1]][cq[2]] => cp = cq
           /\ \A cp \in P :
                 /\ label_dict[cp[1]][cp[2]] \in 0..(N - 1)
                 /\ cp[2] > 1 =>
                        label_dict[cp[1]][cp[2] - 1] < label_dict[cp[1]][cp[2]]
                 /\ IsArgMax(imglabel_raw[label_dict[cp[1]][cp[2]] + 1], cp[1])
           /\ \A idx \in 0..(N - 1) : \A c \in 0..(num_label_classes - 1) :
                 IsArgMax(imglabel_raw[idx + 1], c) =>
                     /\ c \in DOMAIN label_dict
                     /\ \E p \in 1..Len(label_dict[c]) : label_dict[c][p] = idx

\* a batch whose samples fall in three classes or more, one class holding
\* several samples and one printed class holding none
C11_Witness ==
    /\ Grouped
    /\ Cardinality({c \in DOMAIN label_dict : label_dict[c] # <<>>}) >= 3
    /\ \E c \in DOMAIN label_dict : Len(label_dict[c]) >= 2
    /\ \E c \in DOMAIN label_dict : label_dict[c] = <<>>

\* ---------------------------------------------------------------------------
\* C12
\* ---------------------------------------------------------------------------
\* handle h is the encoding prefix of model m: the same builder's graph, cut
\* after the stage of least width and before the stages that follow it
IsEncodingPrefix(h, m) ==
    /\ h # NoHandle
    /\ h.func = m.func
    /\ Len(h.layers) < Len(m.layers)
    /\ h.layers = SubSeq(m.layers, 1, Len(h.layers))
    /\ \A k \in 1..Len(m.layers) :
          h.layers[Len(h.layers)].width <= m.layers[k].width

\* C12 as stated: after train_and_test returns a model built by either builder,
\* encoded_model is defined and is the encoding prefix of the returned model.
C12_HandleForBothBuilders ==
    Returned => IsEncodingPrefix(encoded_model, model)

\* C12: after train_and_test returns a model built by create_deep_model,
\* encoded_model is defined and is the encoding prefix of the returned model;
\* after it returns a model built by create_model, encoded_model is not set.
C12_HandleForDeepBuilderOnly ==
    Returned =>
        /\ model.func = "create_deep_model" => IsEncodingPrefix(encoded_model, model)
        /\ model.func = "create_model" => encoded_model = NoHandle

\* train_and_test has returned the deep model and the handle is set
C12_Witness ==
    /\ pc = "viz_cell"
    /\ model.func = "create_deep_model"
    /\ encoded_model # NoHandle

\* ---------------------------------------------------------------------------
\* C13
\* ---------------------------------------------------------------------------
\* C13: the bottleneck vector the encoded cell extracts has exactly K = 32
\* components, the last entry of encoding_dims, fewer than input_dim = 784:
\* encoded_model ends with the last encoding stage and holds no decoding stage.
C13_BottleneckWidth ==
    LET K == encoding_dims[Len(encoding_dims)]
    IN /\ K < input_dim
       /\ imgA_encoded_len # 0 => imgA_encoded_len = K
       /\ encoded_model # NoHandle =>
             /\ Len(encoded_model.layers) = 1 + Len(encoding_dims)
             /\ encoded_model.layers[Len(encoded_model.layers)] = Layer(K, "relu")

\* the encoded cell has evaluated encoded_model on an image of digit 6
C13_Witness ==
    /\ imgA_encoded_len # 0
    /\ Len(digit_index_list) >= 1

\* ---------------------------------------------------------------------------
\* C14
\* ---------------------------------------------------------------------------
\* the least width of a chain of layers
Bottleneck(layers) ==
    CHOOSE w \in {layers[k].width : k \in DOMAIN layers} :
        \A k \in DOMAIN layers : w <= layers[k].width

\* the chain is: scaling, e rectified-linear stages of non-increasing width
\* ending at the bottleneck, d rectified-linear stages of non-decreasing width
\* not above input_dim, a sigmoid stage of width input_dim
Shape(layers, e, d) ==
    /\ Len(layers) = 2 + e + d
    /\ layers[1] = Layer(input_dim, "scale")
    /\ \A k \in 2..(1 + e + d) : layers[k].activation = "relu"
    /\ \A k \in 2..(1 + e) : layers[k].width <= layers[k - 1].width
    /\ layers[1 + e].width = Bottleneck(layers)
    /\ \A k \in (2 + e)..(1 + e + d) :
          layers[k - 1].width <= layers[k].width /\ layers[k].width <= input_dim
    /\ layers[Len(layers)] = Layer(input_dim, "sigmoid")

\* C14 as stated: every model built has one or more encoding stages and one or
\* more rectified-linear decoding stages before the sigmoid stage.
C14_ShapeWithReluDecoding ==
    model # NoModel =>
        \E e \in 1..Len(model.layers) : \E d \in 1..Len(model.layers) :
            Shape(model.layers, e, d)

\* C14: every model built has one or more rectified-linear encoding stages of
\* non-increasing width ending at the bottleneck, then zero or more
\* rectified-linear decoding stages of non-decreasing width (none for
\* create_model, two for create_deep_model), then a sigmoid stage of width D.
C14_ShapeWithOptionalReluDecoding ==
    model # NoModel =>
        /\ \E e \in 1..Len(model.layers) : \E d \in 0..Len(model.layers) :
              Shape(model.layers, e, d)
        /\ model.func = "create_model" => Shape(model.layers, 1, 0)
        /\ model.func = "create_deep_model" =>
              Shape(model.layers, Len(encoding_dims), Len(decoding_dims))

\* both builders have been used: the shallow model's results are kept and the
\* deep model is built
C14_Witness ==
    /\ model.func = "create_deep_model"
    /\ results.simple_ae_train_error # NoValue

\* ---------------------------------------------------------------------------
\* C15
\* ---------------------------------------------------------------------------
\* a call of the training loop has raised
TrainFailed == failed_at \in {"train_draw", "train_update"}

\* the Trainer is set up and has not drawn a batch
Uninitialized == pc = "tt_draw" /\ data = NoBatch /\ ~TrainFailed

\* the training loop is under way
Running == pc \in {"tt_draw", "tt_train"} /\ data # NoBatch /\ ~TrainFailed

\* the training loop has ended and the training error is reported
Completed == pc \in {"tt_test_draw", "tt_test_eval"} /\ train_error # NoValue

\* C15: the Trainer leaves Uninitialized only on the first batch draw; it is
\* Completed only after exactly num_minibatches_to_train draws and updates;
\* when a draw or an update raises, the run stops there: no step follows, the
\* failed call is not repeated (the draws and updates made are those made
\* before it), Completed is not reached and no training error is reported.
C15_TrainerStateMachine ==
    /\ [](Completed =>
            /\ tt_model.updates = num_minibatches_to_train
            /\ reader_train.draws = num_minibatches_to_train)
    /\ [](Running => reader_train.draws >= 1 /\ tt_model.updates = i)
    /\ [](Uninitialized => reader_train.draws = 0 /\ tt_model.updates = 0)
    /\ [](TrainFailed =>
            /\ pc = "error"
            /\ exception = "RuntimeError"
            /\ train_error = NoValue
            /\ ~Completed
            /\ tt_model.updates = i
            /\ i < num_minibatches_to_train
            /\ reader_train.draws = IF failed_at = "train_draw" THEN i ELSE i + 1)
    /\ [][/\ Uninitialized /\ ~Uninitialized' =>
                \/ Running' /\ pc' = "tt_train" /\ reader_train'.draws = 1
                \/ TrainFailed' /\ failed_at' = "train_draw"
          /\ ~TrainFailed
          /\ Completed' /\ ~Completed => Running /\ pc = "tt_draw"]_vars

\* an update has raised in the middle of the training loop
C15_Witness ==
    /\ TrainFailed
    /\ failed_at = "train_update"
    /\ i > 1

\* ---------------------------------------------------------------------------
\* C17
\* ---------------------------------------------------------------------------
\* samples of the test file the evaluation loop does not ask for
Unrequested == num_samples - num_minibatches_to_test * test_minibatch_size

\* C17: the evaluation loop never draws from an exhausted reader: the 312
\* batches of 32 ask for 9,984 of the 10,000 test samples, so each batch drawn
\* is a full batch of the first sweep starting where the one before ended (no
\* sample twice), and the reader never gets past sample 9,984: the last 16
\* samples of the file are not evaluated.
C17_TestLoopWithinFile ==
    /\ Unrequested = 16
    /\ pc = "tt_test_eval" =>
          /\ data.source = reader_test.id
          /\ data.n = test_minibatch_size
          /\ data.sweep = 0
          /\ data.first = i * test_minibatch_size
          /\ data.first + data.n <= NumRecords(reader_test.path) - Unrequested
    /\ InTestLoop \/ Returned =>
          /\ reader_test.epoch_size = FULL_DATA_SWEEP
          /\ NumRecords(reader_test.path) = TestImages
          /\ reader_test.pos <= TestImages - Unrequested
    /\ Returned => reader_test.pos = TestImages - Unrequested

\* the last batch of an evaluation pass has been drawn
C17_Witness ==
    /\ pc = "tt_test_eval"
    /\ i = num_minibatches_to_test - 1
    /\ reader_test.pos = 9984

\* ---------------------------------------------------------------------------
\* C18
\* ---------------------------------------------------------------------------
\* C18: the comparison cells read label_dict[c][k] only when group c has more
\* than k members (digit 6, elements 0 and 1; digits 3 and 8, element 0), and
\* otherwise skip the comparison: no comparison cell ends in an IndexError, a
\* comparison made had groups large enough, and a different-digit cell that
\* found too small a group has skipped.
C18_GroupAccessGuarded ==
    /\ ~(exception = "IndexError" /\ failed_at \in {"same_cell", "diff_cell"})
    /\ cmp_same.status = "compared" =>
          Len(DictGet(label_dict, digit_of_interest)) > 1
    /\ cmp_same.status = "skipped" =>
          Len(DictGet(label_dict, digit_of_interest)) <= 1
    /\ cmp_diff.status = "compared" =>
          /\ Len(DictGet(label_dict, digitA)) > 0
          /\ Len(DictGet(label_dict, digitB)) > 0
    /\ pc = "done" /\ cmp_diff.status # "compared" => cmp_diff.status = "skipped"

====
